---- MODULE Spec2Model ----
(***************************************************************************)
(* quPython: deferred circuit construction.                                *)
(*                                                                         *)
(* User code calls gate / measure / ~ / as_control on Qubit and BitPromise *)
(* objects (qubit.py); every call appends Instruction objects to the       *)
(* operations log of the operands it touches.  _construct_circuit          *)
(* (construction.py) later merges the logs of the linkage closure of the   *)
(* requested promises into one circuit.                                    *)
(*                                                                         *)
(* Names: construction.py refers to get_linked_bits, inverse,              *)
(* quPythonInstruction and quPythonMeasurement, which qubit.py defines as  *)
(* _get_linked_bits, _inverse, _quPythonInstruction and                    *)
(* _quPythonMeasurement; the model takes each pair to be the same thing.   *)
(***************************************************************************)
EXTENDS Integers, Sequences, FiniteSets, TLC

\* ------------------------------------------------------------- bounds
NumQubits == 2      \* Qubit() objects the user code creates
MaxInsts == 2       \* recorded instructions when calls are explored
MaxCompileInsts == 3  \* recorded instructions when traces are compiled
MaxPromises == 2    \* BitPromise objects (measure results and inversions)
MaxRunInsts == 4    \* recorded instructions when circuits are executed
MaxRunPromises == 3 \* BitPromise objects when circuits are executed
MaxPasses == 2      \* compile calls on one quPythonFunction
MaxDepth == 2       \* nesting depth of with-statements in one context
MaxControls == 3    \* length of the tuple of active controls (open scopes and
                    \* the controls a failed exit has left behind)
MaxConds == 2       \* length of a conditions list the caller writes
MaxListLen == 3     \* length the caller's kept conditions list may grow to

VARIABLES
    operations,  \* Bit.operations: operand -> sequence of instruction ids
    insts,       \* the instruction objects, by identity (position)
    inverse,     \* BitPromise._inverse: promise -> BOOLEAN
    active,      \* __active_controls__: context -> tuple of operands
    withs,       \* the with-statements each context is inside, outermost first
    cm,          \* a context manager object the user keeps in a variable
    conds,       \* a conditions list object the user keeps in a variable
    exc,         \* context -> the exception propagating in it, or "none"
    last,        \* the most recent call and its outcome
    requested,   \* the promises the last _construct_circuit call was given
    index,       \* operand -> Bit.index, for the operands that have one
    op_pointer,  \* operand -> Bit.op_pointer, for the operands that have one
    circuit,     \* the circuit the last _construct_circuit call built
    pc,          \* "tracing", or how the last _construct_circuit call ended
    merge,       \* where a _construct_circuit call in progress is in its loops
    function,    \* the attributes of a quPythonFunction object
    value        \* BitPromise.value, for the promises that have been resolved

traceVars == <<operations, insts, inverse, active, withs, cm, conds, exc>>
compileVars == <<requested, index, op_pointer, circuit, pc, merge>>
funcVars == <<function, value>>
vars == <<operations, insts, inverse, active, withs, cm, conds, exc, last,
          requested, index, op_pointer, circuit, pc, merge, function, value>>

\* ------------------------------------------------------------- values
\* What a conditions list can hold: Qubit and BitPromise objects (by identity)
\* and build-time values, of which only the truth value is used.
Qubit(i) == [kind |-> "Qubit", id |-> i]
BitPromise(i) == [kind |-> "BitPromise", id |-> i]
True == [kind |-> "bool", id |-> 1]
False == [kind |-> "bool", id |-> 0]

IsQubit(c) == c.kind = "Qubit"
IsBitPromise(c) == c.kind = "BitPromise"
IsBit(c) == IsQubit(c) \/ IsBitPromise(c)
Truthy(c) == c.id /= 0

Qubits == {Qubit(i) : i \in 1..NumQubits}
Promises == DOMAIN inverse
Bits == DOMAIN operations
Range(s) == {s[i] : i \in DOMAIN s}

Contexts == {"main", "other"}
NoException == "none"

\* A contextvars.Token: the value to restore and whether reset() has used it.
NoToken == [old |-> <<>>, used |-> TRUE, set |-> FALSE]
NoCM == [control |-> False, reset_token |-> NoToken]

\* None
None == [kind |-> "NoneType", id |-> 0]

\* quPythonFunction.__init__: circuit = None, promises = None, and no output
\* attribute yet.  `set` tells an attribute that holds a value from one that
\* is None or missing; `pass` is the compile call the value comes from;
\* passes counts the compile calls made.
NoFunction ==
    [output |-> [set |-> FALSE, pass |-> 0, promises |-> {}, qubit |-> FALSE,
                 searchable |-> TRUE],
     promises |-> [set |-> FALSE, pass |-> 0, list |-> <<>>],
     circuit |-> [set |-> FALSE, pass |-> 0, num_qubits |-> 0, num_clbits |-> 0,
                  data |-> <<>>],
     sampler_result |-> [set |-> FALSE, integer |-> 0],
     passes |-> 0]

\* The most recent call: which operation, in which context, how it ended
\* ("self", "None", "promise", "raise"), the instruction and the promise it
\* created (0 / False when none), and the kinds of the values in its combined
\* conditions.
NoCall == [op |-> "none", ctx |-> "main", ret |-> "none", inst |-> 0,
           new |-> False, kinds |-> {}]
Kinds(conditions) == {conditions[i].kind : i \in DOMAIN conditions}

\* ------------------------------------------------------------- qubit.py
\* Qubit._separate_conditions
SeparateConditions(conditions) ==
    [qubits |-> SelectSeq(conditions, IsQubit),
     promises |-> SelectSeq(conditions, IsBitPromise),
     build_time_conditions |-> SelectSeq(conditions, LAMBDA c : ~IsBit(c))]

\* all() that looks at the first build-time condition only
AllFirstOnly(build_time_conditions) ==
    build_time_conditions = <<>> \/ Truthy(build_time_conditions[1])

\* all(build_time_conditions)
All(build_time_conditions) ==
    \A i \in DOMAIN build_time_conditions : Truthy(build_time_conditions[i])

\* the instruction appended to the log of the receiver only
AppendToLogsLastOnly(ops, bits, inst) ==
    IF bits = <<>> THEN ops
    ELSE [ops EXCEPT ![bits[Len(bits)]] = Append(@, inst)]

\* for bit in bits: bit.operations.append(inst)
RECURSIVE AppendToLogs(_, _, _)
AppendToLogs(ops, bits, inst) ==
    IF bits = <<>> THEN ops
    ELSE AppendToLogs([ops EXCEPT ![Head(bits)] = Append(@, inst)],
                      Tail(bits), inst)

\* the check of a measure call that forgets the promises
IllegalConditionQubitsOnly(sep) == sep.qubits /= <<>>

\* if qubits or promises: raise ConditionMeasurementAtRuntimeError
IllegalCondition(sep) == sep.qubits /= <<>> \/ sep.promises /= <<>>

\* a promise created with an empty log
NewPromiseLogEmpty(measurement_instruction) == <<>>

\* BitPromise.__init__: self.operations = [measurement_instruction]
NewPromiseLog(measurement_instruction) == <<measurement_instruction>>

\* the active controls kept in one module-level tuple, the same for every
\* execution context
GetActiveControlsShared(c) == active["main"]

\* __active_controls__.get() in context c
GetActiveControls(c) == active[c]

\* The list object bound to `conditions` when the call starts.
\*   "default": the keyword was not given (a new empty list)
\*   "literal": a list the caller builds for this call
\*   "held":    the list object the caller keeps in a variable
Given(src, lit) ==
    IF src = "held" THEN conds ELSE IF src = "literal" THEN lit ELSE <<>>

\* conditions += __active_controls__.get(): list += tuple extends the list
\* object in place, so a list the caller keeps sees the controls added.
ExtendedHeld(src, mutated, conditions) ==
    IF src = "held" /\ mutated THEN conditions ELSE conds

\* Qubit._create_1q_gate_methods: the add_gate method _create_method(gate)
\* makes, called in context c on Qubit r.  Of the gate only its name is kept
\* ("x": a bit flip, "h": a Hadamard gate).
CreateMethod(gate, c, r, src, lit) ==
    LET given == Given(src, lit)
        conditions == given \o GetActiveControls(c)
        sep == SeparateConditions(conditions)
        inst == Len(insts) + 1
        qubits == sep.qubits \o <<r>>
    IN  /\ exc[c] = NoException
        /\ (src = "held" => Len(conditions) <= MaxListLen)
        /\ conds' = ExtendedHeld(src, TRUE, conditions)
        /\ IF ~All(sep.build_time_conditions)
           THEN /\ UNCHANGED <<operations, insts>>
                /\ last' = [NoCall EXCEPT !.op = "gate", !.ctx = c,
                              !.kinds = Kinds(conditions), !.ret = "None"]
           ELSE /\ insts' = Append(insts, [kind |-> "gate", qubits |-> qubits,
                                           promises |-> sep.promises,
                                           qiskit_instruction |-> gate])
                /\ operations' = AppendToLogs(
                                     AppendToLogs(operations, qubits, inst),
                                     sep.promises, inst)
                /\ last' = [NoCall EXCEPT !.op = "gate", !.ctx = c,
                              !.kinds = Kinds(conditions), !.ret = "self",
                              !.inst = inst]
        /\ UNCHANGED <<inverse, active, withs, cm, exc>>
        /\ UNCHANGED <<compileVars, funcVars>>

\* Qubit.x, called in context c on Qubit r
AddGate(c, r, src, lit) == CreateMethod("x", c, r, src, lit)

\* Qubit.measure, called in context c on Qubit r.  A _quPythonMeasurement has
\* no qiskit_instruction; the field says "measure" for it.
Measure(c, r, src, lit) ==
    LET given == Given(src, lit)
        \* conditions = conditions or []: an empty list is replaced by a new one
        mutated == given /= <<>>
        conditions == given \o GetActiveControls(c)
        sep == SeparateConditions(conditions)
        inst == Len(insts) + 1
        promise == BitPromise(Cardinality(Promises) + 1)
        call == [NoCall EXCEPT !.op = "measure", !.ctx = c,
                   !.kinds = Kinds(conditions)]
    IN  /\ exc[c] = NoException
        /\ (src = "held" => Len(conditions) <= MaxListLen)
        /\ conds' = ExtendedHeld(src, mutated, conditions)
        /\ IF IllegalCondition(sep)
           THEN /\ exc' = [exc EXCEPT ![c] = "ConditionMeasurementAtRuntimeError"]
                /\ last' = [call EXCEPT !.ret = "raise"]
                /\ UNCHANGED <<operations, insts, inverse>>
           ELSE IF ~All(sep.build_time_conditions)
           THEN /\ last' = [call EXCEPT !.ret = "None"]
                /\ UNCHANGED <<operations, insts, inverse, exc>>
           ELSE \* _quPythonMeasurement(self): promises = [BitPromise(self)],
                \* BitPromise.__init__: operations = [measurement], not inverted
                /\ insts' = Append(insts, [kind |-> "measure", qubits |-> <<r>>,
                                           promises |-> <<promise>>,
                                           qiskit_instruction |-> "measure"])
                /\ operations' = [b \in Bits \cup {promise} |->
                                    IF b = promise THEN NewPromiseLog(inst)
                                    ELSE IF b = r THEN Append(operations[b], inst)
                                    ELSE operations[b]]
                /\ inverse' = [p \in Promises \cup {promise} |->
                                 IF p = promise THEN FALSE ELSE inverse[p]]
                /\ last' = [call EXCEPT !.ret = "promise", !.inst = inst,
                              !.new = promise]
                /\ UNCHANGED exc
        /\ UNCHANGED <<active, withs, cm>>
        /\ UNCHANGED <<compileVars, funcVars>>

\* an inversion that keeps the flag of the promise it inverts
NotInverseKept(p) == inverse[p]

\* inverse = not self._inverse
NotInverse(p) == ~inverse[p]

\* An inversion that does not tell the Measurement about the new promise
AppendOutputDropped(promises, new_promise) == promises

\* measurement_instruction.promises.append(new_promise)
AppendOutput(promises, new_promise) == Append(promises, new_promise)

\* BitPromise.__invert__, called in context c on promise p
Invert(c, p) ==
    LET measurement_instruction == operations[p][1]
        new_promise == BitPromise(Cardinality(Promises) + 1)
    IN  /\ exc[c] = NoException
        /\ p \in Promises
        /\ operations' = [b \in Bits \cup {new_promise} |->
                            IF b = new_promise
                            THEN NewPromiseLog(measurement_instruction)
                            ELSE operations[b]]
        /\ inverse' = [q \in Promises \cup {new_promise} |->
                         IF q = new_promise THEN NotInverse(p) ELSE inverse[q]]
        /\ insts' = [insts EXCEPT ![measurement_instruction].promises =
                                      AppendOutput(@, new_promise)]
        /\ last' = [NoCall EXCEPT !.op = "invert", !.ctx = c,
                      !.ret = "promise", !.inst = measurement_instruction,
                      !.new = new_promise]
        /\ UNCHANGED <<active, withs, cm, conds, exc>>
        /\ UNCHANGED <<compileVars, funcVars>>

\* The caller binds its variable to a new list: conds = [...]
NewList(c, lit) ==
    /\ exc[c] = NoException
    /\ conds /= lit
    /\ conds' = lit
    /\ last' = [NoCall EXCEPT !.op = "newlist", !.ctx = c]
    /\ UNCHANGED <<operations, insts, inverse, active, withs, cm, exc>>
    /\ UNCHANGED <<compileVars, funcVars>>

\* del bit.operations[k]: the caller takes an entry out of the public
\* operations list of an operand, in context c.
DeleteEntry(c, bit, k) ==
    /\ exc[c] = NoException
    /\ k \in DOMAIN operations[bit]
    /\ operations' = [operations EXCEPT ![bit] =
                         SubSeq(@, 1, k - 1) \o SubSeq(@, k + 1, Len(@))]
    /\ last' = [NoCall EXCEPT !.op = "del", !.ctx = c]
    /\ UNCHANGED <<insts, inverse, active, withs, cm, conds, exc>>
    /\ UNCHANGED <<compileVars, funcVars>>

\* ------------------------------------------------ control scopes (qubit.py)
\* _ControlBitContextManager.__enter__ in context c: the new value of the
\* context variable and the token ContextVar.set returns.
EnterValue(c, control) == GetActiveControls(c) \o <<control>>
EnterToken(c) == [old |-> GetActiveControls(c), used |-> FALSE, set |-> TRUE]

HeldOpen == \E c \in Contexts : \E i \in DOMAIN withs[c] : withs[c][i].held

\* cm = bit.as_control(): Bit.as_control, kept in the caller's variable
AsControl(c, bit) ==
    /\ exc[c] = NoException
    /\ ~HeldOpen
    /\ cm /= [control |-> bit, reset_token |-> NoToken]
    /\ cm' = [control |-> bit, reset_token |-> NoToken]
    /\ last' = [NoCall EXCEPT !.op = "as_control", !.ctx = c]
    /\ UNCHANGED <<operations, insts, inverse, active, withs, conds, exc>>
    /\ UNCHANGED <<compileVars, funcVars>>

\* with bit.as_control(): a new context manager, entered in context c.
\* The with-statement holds the only reference to it.
EnterNew(c, bit) ==
    /\ exc[c] = NoException
    /\ Len(withs[c]) < MaxDepth
    /\ Len(active[c]) < MaxControls
    /\ active' = [active EXCEPT ![c] = EnterValue(c, bit)]
    /\ withs' = [withs EXCEPT ![c] = Append(@,
                    [held |-> FALSE, control |-> bit,
                     reset_token |-> EnterToken(c),
                     before |-> GetActiveControls(c)])]
    /\ last' = [NoCall EXCEPT !.op = "enter", !.ctx = c]
    /\ UNCHANGED <<operations, insts, inverse, cm, conds, exc>>
    /\ UNCHANGED <<compileVars, funcVars>>

\* with cm: the kept context manager, entered (again) in context c.
\* __enter__ overwrites self.reset_token.
EnterHeld(c) ==
    /\ exc[c] = NoException
    /\ cm /= NoCM
    /\ Len(withs[c]) < MaxDepth
    /\ Len(active[c]) < MaxControls
    /\ active' = [active EXCEPT ![c] = EnterValue(c, cm.control)]
    /\ cm' = [cm EXCEPT !.reset_token = EnterToken(c)]
    /\ withs' = [withs EXCEPT ![c] = Append(@,
                    [held |-> TRUE, control |-> cm.control,
                     reset_token |-> NoToken,
                     before |-> GetActiveControls(c)])]
    /\ last' = [NoCall EXCEPT !.op = "enter", !.ctx = c]
    /\ UNCHANGED <<operations, insts, inverse, conds, exc>>
    /\ UNCHANGED <<compileVars, funcVars>>

\* ContextVar.reset(token): a used token raises RuntimeError and restores
\* nothing; otherwise the old value comes back and the token is used up.
ResetRaises(token) == token.used
ResetValue(c, token) == IF ResetRaises(token) THEN active[c] ELSE token.old

\* Control leaves the innermost with-statement of context c, normally or with
\* an exception propagating: _ControlBitContextManager.__exit__, which returns
\* None, so a propagating exception carries on; an exception __exit__ raises
\* replaces it.
ExitWith(c) ==
    LET w == withs[c][Len(withs[c])]
        token == IF w.held THEN cm.reset_token ELSE w.reset_token
    IN  /\ withs[c] /= <<>>
        /\ withs' = [withs EXCEPT ![c] = SubSeq(@, 1, Len(@) - 1)]
        /\ active' = [active EXCEPT ![c] = ResetValue(c, token)]
        /\ cm' = IF w.held THEN [cm EXCEPT !.reset_token.used = TRUE] ELSE cm
        /\ exc' = IF ResetRaises(token)
                  THEN [exc EXCEPT ![c] = "RuntimeError"] ELSE exc
        /\ last' = [NoCall EXCEPT !.op = "exit", !.ctx = c,
                      !.ret = IF ResetRaises(token) THEN "raise" ELSE "None"]
        /\ UNCHANGED <<operations, insts, inverse, conds>>
        /\ UNCHANGED <<compileVars, funcVars>>

\* An except clause around the current position catches the exception.
Catch(c) ==
    /\ exc[c] /= NoException
    /\ exc' = [exc EXCEPT ![c] = NoException]
    /\ last' = [NoCall EXCEPT !.op = "catch", !.ctx = c]
    /\ UNCHANGED <<operations, insts, inverse, active, withs, cm, conds>>
    /\ UNCHANGED <<compileVars, funcVars>>

\* --------------------------------------------------------- construction.py
\* The operands an instruction touches: op.qubits + op.promises
Touched(op) == insts[op].qubits \o insts[op].promises

\* Bit._get_linked_bits: the while loop, from the sets searched_bits and
\* all_known_bits it has reached.
RECURSIVE LinkedFrom(_, _)
LinkedFrom(searched_bits, all_known_bits) ==
    IF Cardinality(searched_bits) >= Cardinality(all_known_bits)
    THEN all_known_bits
    ELSE LET todo == all_known_bits \ searched_bits
             found == UNION {Range(Touched(op)) :
                             op \in UNION {Range(operations[bit]) : bit \in todo}}
         IN  LinkedFrom(searched_bits \cup todo, all_known_bits \cup found)

\* A search that looks at the log of the starting operand only
GetLinkedBitsOnePass(bit) ==
    {bit} \cup UNION {Range(Touched(op)) : op \in Range(operations[bit])}

GetLinkedBits(bit) == LinkedFrom({}, {bit})

\* _get_bits_from_promises
GetBitsFromPromises(promises) ==
    promises \cup UNION {GetLinkedBits(bit) : bit \in promises}

\* The orders in which a Python set can hand out its elements.  Qubit and
\* BitPromise hash by id(), so the order depends on where the objects were
\* allocated, which the trace does not fix.
Enumerations(S) ==
    {e \in [1..Cardinality(S) -> S] : \A i, j \in DOMAIN e : e[i] = e[j] => i = j}

\* An enumerate that gives every element the position 0
PositionZero(list, bit) == 0

\* enumerate(...): the position of bit in the list, from 0
Position(list, bit) == (CHOOSE i \in DOMAIN list : list[i] = bit) - 1

\* _waiting_for_bits over the operands not yet looked at: "wait" (True),
\* "ready" (False), or "IndexError" when a cursor is past the end of a log.
RECURSIVE WaitingOver(_, _, _)
WaitingOver(ptr, bits, instruction) ==
    IF bits = <<>> THEN "ready"
    ELSE IF ptr[Head(bits)] >= Len(operations[Head(bits)]) THEN "IndexError"
    ELSE IF operations[Head(bits)][ptr[Head(bits)] + 1] /= instruction THEN "wait"
    ELSE WaitingOver(ptr, Tail(bits), instruction)

\* _waiting_for_bits that checks the cursors of the qubits only
WaitingForBitsQubitsOnly(ptr, instruction) ==
    WaitingOver(ptr, insts[instruction].qubits, instruction)

\* _waiting_for_bits that never waits
WaitingForBitsNever(ptr, instruction) == "ready"

WaitingForBits(ptr, instruction) ==
    WaitingOver(ptr, Touched(instruction), instruction)

\* for bit in op.qubits+op.promises: bit.op_pointer += 1
RECURSIVE Advance(_, _)
Advance(ptr, bits) ==
    IF bits = <<>> THEN ptr
    ELSE Advance([ptr EXCEPT ![Head(bits)] = @ + 1], Tail(bits))

\* circuit.measure(qubit.index, promise.index) for each promise of op
MeasureEntries(idx, op, qubit) ==
    [k \in DOMAIN insts[op].promises |->
        [inst |-> op, name |-> "measure", qargs |-> <<idx[qubit]>>,
         cargs |-> <<idx[insts[op].promises[k]]>>, guards |-> <<>>]]

\* the gate guarded by the opposite value of each promise's classical bit
GateEntryFlipped(idx, op) ==
    [inst |-> op, name |-> insts[op].qiskit_instruction,
     qargs |-> [k \in DOMAIN insts[op].qubits |-> idx[insts[op].qubits[k]]],
     cargs |-> <<>>,
     guards |-> [k \in DOMAIN insts[op].promises |->
                    <<idx[insts[op].promises[k]],
                      IF inverse[insts[op].promises[k]] THEN 1 ELSE 0>>]]

\* circuit.append(op.qiskit_instruction, [q.index for q in op.qubits]) inside
\* circuit.if_test((promise.index, int(not promise.inverse))) for each promise
GateEntry(idx, op) ==
    [inst |-> op, name |-> insts[op].qiskit_instruction,
     qargs |-> [k \in DOMAIN insts[op].qubits |-> idx[insts[op].qubits[k]]],
     cargs |-> <<>>,
     guards |-> [k \in DOMAIN insts[op].promises |->
                    <<idx[insts[op].promises[k]],
                      IF inverse[insts[op].promises[k]] THEN 0 ELSE 1>>]]

\* QuantumCircuit.append rejects a qubit named twice (CircuitError).
DuplicateQubitArguments(qargs) ==
    \E i, j \in DOMAIN qargs : i /= j /\ qargs[i] = qargs[j]

\* _add_instructions_to_circuit: the for loop over the slice
\* qubit.operations[qubit.op_pointer:], from the entries `ops` still to visit.
\* m holds the cursors, the circuit built so far and "running" or the
\* exception raised.
RECURSIVE AddOps(_, _, _, _)
AddOps(m, idx, qubit, ops) ==
    IF ops = <<>> \/ m.status /= "running" THEN m
    ELSE LET op == Head(ops)
             waiting == WaitingForBits(m.op_pointer, op)
             ptr == Advance(m.op_pointer, Touched(op))
         IN  IF waiting = "wait" THEN m
             ELSE IF waiting = "IndexError"
             THEN [m EXCEPT !.status = "IndexError"]
             ELSE IF insts[op].kind = "measure"
             THEN AddOps([m EXCEPT !.op_pointer = ptr,
                             !.data = @ \o MeasureEntries(idx, op, qubit)],
                         idx, qubit, Tail(ops))
             ELSE IF DuplicateQubitArguments(GateEntry(idx, op).qargs)
             THEN [m EXCEPT !.op_pointer = ptr, !.status = "CircuitError"]
             ELSE AddOps([m EXCEPT !.op_pointer = ptr,
                             !.data = Append(@, GateEntry(idx, op))],
                         idx, qubit, Tail(ops))

AddInstructionsToCircuit(m, idx, qubit) ==
    AddOps(m, idx, qubit,
           SubSeq(operations[qubit], m.op_pointer[qubit] + 1,
                  Len(operations[qubit])))

\* for qubit in qubits: _add_instructions_to_circuit(circuit, qubit)
RECURSIVE ForEachQubit(_, _, _)
ForEachQubit(m, idx, qubits) ==
    IF qubits = <<>> \/ m.status /= "running" THEN m
    ELSE ForEachQubit(AddInstructionsToCircuit(m, idx, Head(qubits)),
                      idx, Tail(qubits))

\* any(q.op_pointer < len(q.operations) for q in qubits)
AnyPending(ptr, qubits) ==
    \E k \in DOMAIN qubits : ptr[qubits[k]] < Len(operations[qubits[k]])

\* The while loop of _construct_circuit.  A pass that changes nothing leaves
\* the loop condition as it was: the loop never ends ("loops").
RECURSIVE MergeLoop(_, _, _)
MergeLoop(m, idx, qubits) ==
    IF m.status /= "running" THEN m
    ELSE IF ~AnyPending(m.op_pointer, qubits)
    THEN [m EXCEPT !.status = "returned"]
    ELSE LET pass == ForEachQubit(m, idx, qubits)
         IN  IF pass = m THEN [m EXCEPT !.status = "loops"]
             ELSE MergeLoop(pass, idx, qubits)

NoCircuit == [num_qubits |-> 0, num_clbits |-> 0, data |-> <<>>]

\* _construct_circuit(promises), with the orders in which the set `bits`
\* hands out its Qubits and its BitPromises.
ConstructCircuit(promises, qubits, bit_promises) ==
    \E bits \in {GetBitsFromPromises(promises)} :
    \E idx \in {[b \in DOMAIN index \cup bits |->
                   IF ~(b \in bits) THEN index[b]
                   ELSE IF IsQubit(b) THEN Position(qubits, b)
                   ELSE Position(bit_promises, b)]} :
    \E ptr \in {[b \in DOMAIN op_pointer \cup bits |->
                   IF b \in bits THEN 0 ELSE op_pointer[b]]} :
    \E m \in {MergeLoop([op_pointer |-> ptr, data |-> <<>>, status |-> "running"],
                        idx, qubits)} :
        /\ Range(qubits) = {b \in bits : IsQubit(b)}
        /\ Range(bit_promises) = {b \in bits : IsBitPromise(b)}
        /\ requested' = promises
        /\ index' = idx
        /\ op_pointer' = m.op_pointer
        /\ circuit' = IF m.status = "returned"
                      THEN [num_qubits |-> Len(qubits),
                            num_clbits |-> Len(bit_promises), data |-> m.data]
                      ELSE NoCircuit
        /\ pc' = m.status
        /\ last' = [NoCall EXCEPT !.op = "construct"]
        /\ UNCHANGED <<traceVars, merge>>

\* ------------------------------ _construct_circuit, one statement at a time
\* The locals of a call in progress: the list `qubits`, the position k of the
\* for loop over it (0: at the while test) and, for the Qubit at k, the part
\* of the slice qubit.operations[qubit.op_pointer:] still to visit.
NoMerge == [qubits |-> <<>>, k |-> 0, ops |-> <<>>]

\* qubit.operations[qubit.op_pointer:]
Slice(qubit) ==
    SubSeq(operations[qubit], op_pointer[qubit] + 1, Len(operations[qubit]))

\* A start that gives a cursor only to the operands that have none yet
ResetCursorsNew(bits) ==
    [b \in DOMAIN op_pointer \cup bits |->
        IF b \in DOMAIN op_pointer THEN op_pointer[b] ELSE 0]

\* qubit.op_pointer = 0, promise.op_pointer = 0 for the operands of the closure
ResetCursors(bits) ==
    [b \in DOMAIN op_pointer \cup bits |->
        IF b \in bits THEN 0 ELSE op_pointer[b]]

\* _construct_circuit up to the while loop: the closure, the two lists, index
\* and op_pointer of every operand of the closure, the empty circuit.
BeginConstruct(promises, qubits, bit_promises) ==
    \E bits \in {GetBitsFromPromises(promises)} :
        /\ pc /= "merging"
        /\ Range(qubits) = {b \in bits : IsQubit(b)}
        /\ Range(bit_promises) = {b \in bits : IsBitPromise(b)}
        /\ requested' = promises
        /\ index' = [b \in DOMAIN index \cup bits |->
                        IF ~(b \in bits) THEN index[b]
                        ELSE IF IsQubit(b) THEN Position(qubits, b)
                        ELSE Position(bit_promises, b)]
        /\ op_pointer' = ResetCursors(bits)
        /\ circuit' = [num_qubits |-> Len(qubits),
                       num_clbits |-> Len(bit_promises), data |-> <<>>]
        /\ pc' = "merging"
        /\ merge' = [qubits |-> qubits, k |-> 0, ops |-> <<>>]
        /\ last' = [NoCall EXCEPT !.op = "begin"]
        /\ UNCHANGED <<traceVars, funcVars>>

\* while any(q.op_pointer < len(q.operations) for q in qubits): the test.
\* True starts the for loop over qubits; False returns the circuit.
WhileTest ==
    /\ pc = "merging" /\ merge.k = 0
    /\ IF AnyPending(op_pointer, merge.qubits)
       THEN /\ merge' = [merge EXCEPT !.k = 1, !.ops = Slice(merge.qubits[1])]
            /\ pc' = pc
       ELSE /\ pc' = "returned"
            /\ merge' = merge
    /\ last' = [NoCall EXCEPT !.op = "while"]
    /\ UNCHANGED <<traceVars, funcVars, requested, index, op_pointer, circuit>>

\* _add_instructions_to_circuit ends without emitting.  The slice is used up
\* or the op it is at waits for another operand: it returns, and the for loop
\* of _construct_circuit goes to the next Qubit, or back to the while test
\* after the last one.  Or _waiting_for_bits reads
\* bit.operations[bit.op_pointer] past the end of a log: IndexError.
ReturnToLoop ==
    /\ pc = "merging" /\ merge.k > 0
    /\ \E waiting \in {IF merge.ops = <<>> THEN "wait"
                       ELSE WaitingForBits(op_pointer, Head(merge.ops))} :
          /\ waiting /= "ready"
          /\ IF waiting = "IndexError"
             THEN /\ pc' = "IndexError"
                  /\ merge' = merge
                  /\ last' = [NoCall EXCEPT !.op = "raise"]
             ELSE /\ pc' = pc
                  /\ merge' = IF merge.k < Len(merge.qubits)
                              THEN [merge EXCEPT
                                      !.k = @ + 1,
                                      !.ops = Slice(merge.qubits[merge.k + 1])]
                              ELSE [merge EXCEPT !.k = 0, !.ops = <<>>]
                  /\ last' = [NoCall EXCEPT !.op = "return"]
    /\ UNCHANGED <<traceVars, funcVars, requested, index, op_pointer, circuit>>

\* _add_instructions_to_circuit, one turn of its for loop on an op that does
\* not wait: the cursors advance, then the op goes into the circuit, or
\* QuantumCircuit.append raises.
Emit(op) ==
    LET qubit == merge.qubits[merge.k]
    IN  /\ pc = "merging" /\ merge.k > 0 /\ merge.ops /= <<>>
        /\ op = Head(merge.ops)
        /\ WaitingForBits(op_pointer, op) = "ready"
        /\ op_pointer' = Advance(op_pointer, Touched(op))
        /\ IF insts[op].kind = "measure"
           THEN /\ circuit' = [circuit EXCEPT
                                 !.data = @ \o MeasureEntries(index, op, qubit)]
                /\ pc' = pc
                /\ merge' = [merge EXCEPT !.ops = Tail(@)]
           ELSE IF DuplicateQubitArguments(GateEntry(index, op).qargs)
           THEN /\ pc' = "CircuitError"
                /\ UNCHANGED <<circuit, merge>>
           ELSE /\ circuit' = [circuit EXCEPT
                                 !.data = Append(@, GateEntry(index, op))]
                /\ pc' = pc
                /\ merge' = [merge EXCEPT !.ops = Tail(@)]
        /\ last' = [NoCall EXCEPT !.op = "emit", !.inst = op]
        /\ UNCHANGED <<traceVars, funcVars, requested, index>>

\* The steps of a _construct_circuit call in progress
MergeStep ==
    \/ WhileTest
    \/ ReturnToLoop
    \/ \E op \in DOMAIN insts : Emit(op)

\* ------------------------------------------------- the backend (function.py)
\* Sampler().run(circuit).result() for one shot, on the circuits the model
\* builds: a Qubit is 0, 1 or in superposition (2); "x" flips a 0 or a 1,
\* "h" puts the Qubit in superposition; a measurement of a Qubit in
\* superposition gives 0 or 1 and leaves the Qubit there; a control in
\* superposition is 0 or 1 when the gate looks at it.
Superposed == 2
NoShot(num_qubits, num_clbits) ==
    [q |-> [k \in 0..num_qubits - 1 |-> 0], c |-> [j \in 0..num_clbits - 1 |-> 0]]

\* if_test((clbit, value)): every guard of the entry holds
GuardsHold(shot, entry) ==
    \A g \in DOMAIN entry.guards : shot.c[entry.guards[g][1]] = entry.guards[g][2]

\* The shots after a circuit.measure(qubit, clbit) entry
AfterMeasure(shot, entry) ==
    LET qubit == entry.qargs[1]
        clbit == entry.cargs[1]
    IN  {[q |-> [shot.q EXCEPT ![qubit] = b], c |-> [shot.c EXCEPT ![clbit] = b]] :
           b \in IF shot.q[qubit] = Superposed THEN {0, 1} ELSE {shot.q[qubit]}}

\* The shots after a gate entry: qargs are the controls, then the target.
AfterGate(shot, entry) ==
    LET controls == {entry.qargs[k] : k \in 1..Len(entry.qargs) - 1}
        target == entry.qargs[Len(entry.qargs)]
        seen == {q \in [DOMAIN shot.q -> {0, 1, Superposed}] :
                   \A k \in DOMAIN shot.q :
                      IF k \in controls /\ shot.q[k] = Superposed
                      THEN q[k] \in {0, 1} ELSE q[k] = shot.q[k]}
        applied(v) == IF entry.name = "h" THEN Superposed
                      ELSE IF v = Superposed THEN Superposed ELSE 1 - v
    IN  IF ~GuardsHold(shot, entry) THEN {shot}
        ELSE {[shot EXCEPT !.q = IF \A k \in controls : q[k] = 1
                                  THEN [q EXCEPT ![target] = applied(q[target])]
                                  ELSE q] : q \in seen}

\* The shots after the entries data[k..], from the set of shots before them
RECURSIVE ShotsFrom(_, _, _)
ShotsFrom(shots, data, k) ==
    IF k > Len(data) THEN shots
    ELSE ShotsFrom(UNION {IF data[k].name = "measure"
                          THEN AfterMeasure(shot, data[k])
                          ELSE AfterGate(shot, data[k]) : shot \in shots},
                   data, k + 1)

\* The classical bits as the key of quasi_dists[0]: bit j is clbit j
RECURSIVE Integer(_, _)
Integer(c, num_clbits) ==
    IF num_clbits = 0 THEN 0
    ELSE c[num_clbits - 1] * 2 ^ (num_clbits - 1) + Integer(c, num_clbits - 1)

\* The outcomes one shot of the circuit can give
Outcomes(qc) ==
    {Integer(shot.c, qc.num_clbits) :
       shot \in ShotsFrom({NoShot(qc.num_qubits, qc.num_clbits)}, qc.data, 1)}

\* ------------------------------------------------------------- function.py
\* What a function returns, as far as _get_promises sees it: the promises in
\* it, whether a Qubit is in it, whether every object in it can be searched.
Outputs ==
    [promises : SUBSET Promises, qubit : BOOLEAN, searchable : BOOLEAN]

\* _get_promises raises ValueError on a Qubit and on an object it cannot search
GetPromisesRaises(obj) == obj.qubit \/ ~obj.searchable
GetPromises(obj) == obj.promises

\* bool((1 << promise.index) & integer)
BitSet(integer, i) == (integer \div 2 ^ i) % 2 = 1

\* A resolution that stores the bit already combined with the inversion flag
ResolveInverted(list, integer) ==
    [p \in DOMAIN value \cup Range(list) |->
        IF p \in Range(list) THEN BitSet(integer, index[p]) /= inverse[p]
        ELSE value[p]]

\* interpret_result: for promise in self.promises: promise.value = ...
Resolve(list, integer) ==
    [p \in DOMAIN value \cup Range(list) |->
        IF p \in Range(list) THEN BitSet(integer, index[p]) ELSE value[p]]

\* __bool__ that returns the stored value whatever the flag
BoolIgnoringInverse(p) ==
    IF ~(p \in DOMAIN value)
    THEN [kind |-> "BitPromiseNotResolvedError", id |-> 0]
    ELSE (IF value[p] THEN True ELSE False)

\* BitPromise.__bool__: the truth value of promise p, or the error it raises
Bool(p) ==
    IF ~(p \in DOMAIN value)
    THEN [kind |-> "BitPromiseNotResolvedError", id |-> 0]
    ELSE IF inverse[p] THEN (IF value[p] THEN False ELSE True)
    ELSE (IF value[p] THEN True ELSE False)

\* The function body has returned: no with-statement open, no exception.
Closed == withs["main"] = <<>> /\ exc["main"] = NoException

\* quPythonFunction.compile, when the function returns obj; promises is the
\* list made of the set _get_promises returns, qubits and bit_promises the
\* orders in which _construct_circuit gets the operands.  An exception leaves
\* compile at the statement that raised it.
Compile(obj, promises, qubits, bit_promises) ==
    LET pass == function.passes + 1
        output == [set |-> TRUE, pass |-> pass, promises |-> obj.promises,
                   qubit |-> obj.qubit, searchable |-> obj.searchable]
    IN  /\ Closed /\ pc /= "loops"
        /\ function.passes < MaxPasses
        /\ IF GetPromisesRaises(obj)
           THEN /\ function' = [function EXCEPT !.output = output,
                                                !.passes = pass]
                /\ last' = [NoCall EXCEPT !.op = "compile", !.ret = "ValueError"]
                /\ UNCHANGED <<traceVars, compileVars>>
           ELSE /\ Range(promises) = GetPromises(obj)
                /\ Len(promises) = Cardinality(GetPromises(obj))
                /\ ConstructCircuit(GetPromises(obj), qubits, bit_promises)
                /\ function' =
                      [function EXCEPT
                         !.output = output,
                         !.promises = [set |-> TRUE, pass |-> pass,
                                       list |-> promises],
                         !.circuit = IF pc' = "returned"
                                     THEN [set |-> TRUE, pass |-> pass,
                                           num_qubits |-> circuit'.num_qubits,
                                           num_clbits |-> circuit'.num_clbits,
                                           data |-> circuit'.data]
                                     ELSE @,
                         !.passes = pass]
        /\ UNCHANGED value

\* quPythonFunction.interpret_result(result): what it returns or raises, and
\* the values it assigns.  result.set is FALSE for None.
InterpretReturns(result) ==
    IF ~result.set /\ function.promises.set /\ function.promises.list = <<>>
    THEN "output"
    ELSE IF ~result.set THEN "AttributeError"
    ELSE IF ~function.promises.set THEN "TypeError"
    ELSE "output"
InterpretAssigns(result) ==
    IF result.set /\ function.promises.set
    THEN Resolve(function.promises.list, result.integer)
    ELSE value

InterpretResult(result) ==
    /\ pc /= "loops"
    /\ value' = InterpretAssigns(result)
    /\ last' = [NoCall EXCEPT !.op = "interpret_result",
                  !.ret = InterpretReturns(result),
                  !.inst = function.output.pass]
    /\ UNCHANGED <<traceVars, compileVars, function>>

\* A run without the early return for an empty promise list
RunAlwaysExecutes(result) ==
    /\ pc /= "loops"
    /\ IF ~function.promises.set
       THEN /\ last' = [NoCall EXCEPT !.op = "run",
                          !.ret = "quPythonFunctionError"]
            /\ UNCHANGED <<function, value>>
       ELSE IF ~function.circuit.set
       THEN /\ last' = [NoCall EXCEPT !.op = "run", !.ret = "SamplerError"]
            /\ UNCHANGED <<function, value>>
       ELSE /\ result.set /\ result.integer \in Outcomes(function.circuit)
            /\ function' = [function EXCEPT !.sampler_result = result]
            /\ value' = InterpretAssigns(result)
            /\ last' = [NoCall EXCEPT !.op = "run",
                          !.ret = InterpretReturns(result),
                          !.inst = function.output.pass]
    /\ UNCHANGED <<traceVars, compileVars>>

\* quPythonFunction.run; result is what the backend gives for self.circuit
Run(result) ==
    /\ pc /= "loops"
    /\ IF ~function.promises.set
       THEN /\ last' = [NoCall EXCEPT !.op = "run",
                          !.ret = "quPythonFunctionError"]
            /\ UNCHANGED <<function, value>>
       ELSE IF function.promises.list = <<>>
       THEN /\ last' = [NoCall EXCEPT !.op = "run", !.ret = "output",
                          !.inst = function.output.pass]
            /\ UNCHANGED <<function, value>>
       ELSE IF ~function.circuit.set
       THEN \* Sampler().run(None)
            /\ last' = [NoCall EXCEPT !.op = "run", !.ret = "SamplerError"]
            /\ UNCHANGED <<function, value>>
       ELSE /\ result.set /\ result.integer \in Outcomes(function.circuit)
            /\ function' = [function EXCEPT !.sampler_result = result]
            /\ value' = InterpretAssigns(result)
            /\ last' = [NoCall EXCEPT !.op = "run",
                          !.ret = InterpretReturns(result),
                          !.inst = function.output.pass]
    /\ UNCHANGED <<traceVars, compileVars>>

\* ------------------------------------------------------------- behaviours
Init ==
    /\ operations = [q \in Qubits |-> <<>>]      \* Qubit.__init__
    /\ insts = <<>>
    /\ inverse = <<>>
    /\ active = [c \in Contexts |-> <<>>]        \* ContextVar default=()
    /\ withs = [c \in Contexts |-> <<>>]
    /\ cm = NoCM
    /\ conds = <<>>
    /\ exc = [c \in Contexts |-> NoException]
    /\ last = NoCall
    /\ requested = {}
    /\ index = <<>>
    /\ op_pointer = <<>>
    /\ circuit = NoCircuit
    /\ pc = "tracing"
    /\ merge = NoMerge
    /\ function = NoFunction
    /\ value = <<>>

RECURSIVE SeqsUpTo(_, _)
SeqsUpTo(S, n) ==
    IF n = 0 THEN {<<>>}
    ELSE LET shorter == SeqsUpTo(S, n - 1)
         IN  shorter \cup {Append(s, x) : s \in shorter, x \in S}

\* The conditions lists a caller can write in the current state.
CondLists == SeqsUpTo(Bits \cup {True, False}, MaxConds)

\* src = "literal" goes with a non-empty list, the other sources with none.
Literal(src, lit) == (src = "literal") <=> (lit /= <<>>)

\* Tracing in one context: gate and measure calls, inversion, with-statements
\* on new context managers, and exceptions caught.
Next ==
    \/ \E r \in Qubits, src \in {"default", "literal"}, lit \in CondLists :
          /\ Len(insts) < MaxInsts
          /\ Literal(src, lit)
          /\ AddGate("main", r, src, lit)
    \/ \E r \in Qubits, src \in {"default", "literal"}, lit \in CondLists :
          /\ Len(insts) < MaxInsts /\ Cardinality(Promises) < MaxPromises
          /\ Literal(src, lit)
          /\ Measure("main", r, src, lit)
    \/ \E p \in Promises :
          Cardinality(Promises) < MaxPromises /\ Invert("main", p)
    \/ \E b \in Bits : EnterNew("main", b)
    \/ ExitWith("main")
    \/ Catch("main")

Spec == Init /\ [][Next]_vars

\* Tracing, then _construct_circuit on any set of the promises, any number
\* of times.
NextCompile ==
    \/ \E r \in Qubits, src \in {"default", "literal"},
          lit \in SeqsUpTo(Bits, 1) :
          /\ pc = "tracing" /\ Len(insts) < MaxCompileInsts
          /\ Literal(src, lit)
          /\ AddGate("main", r, src, lit)
    \/ \E r \in Qubits :
          /\ pc = "tracing" /\ Len(insts) < MaxCompileInsts
          /\ Cardinality(Promises) < MaxPromises
          /\ Measure("main", r, "default", <<>>)
    \/ \E p \in Promises :
          /\ pc = "tracing" /\ Cardinality(Promises) < MaxPromises
          /\ Invert("main", p)
    \/ \E b \in Bits :
          pc = "tracing" /\ withs["main"] = <<>> /\ EnterNew("main", b)
    \/ pc = "tracing" /\ ExitWith("main")
    \/ pc = "tracing" /\ Catch("main")
    \/ \E promises \in SUBSET Promises :
       \E bits \in {GetBitsFromPromises(promises)} :
       \E qubits \in Enumerations({b \in bits : IsQubit(b)}) :
       \E bit_promises \in Enumerations({b \in bits : IsBitPromise(b)}) :
          /\ Closed /\ ConstructCircuit(promises, qubits, bit_promises)
          /\ UNCHANGED funcVars

SpecCompile == Init /\ [][NextCompile]_vars

\* A trace, then _construct_circuit calls followed one statement at a time.
NextMerge ==
    \/ \E r \in Qubits, src \in {"default", "literal"},
          lit \in SeqsUpTo(Bits, 1) :
          /\ pc = "tracing" /\ Len(insts) < MaxCompileInsts
          /\ Literal(src, lit)
          /\ AddGate("main", r, src, lit)
    \/ \E r \in Qubits :
          /\ pc = "tracing" /\ Len(insts) < MaxCompileInsts
          /\ Cardinality(Promises) < MaxPromises
          /\ Measure("main", r, "default", <<>>)
    \/ \E p \in Promises :
          /\ pc = "tracing" /\ Cardinality(Promises) < MaxPromises
          /\ Invert("main", p)
    \/ \E b \in Bits :
          pc = "tracing" /\ withs["main"] = <<>> /\ EnterNew("main", b)
    \/ pc = "tracing" /\ ExitWith("main")
    \/ pc = "tracing" /\ Catch("main")
    \/ /\ Closed /\ pc /= "merging"
       /\ \E promises \in SUBSET Promises :
          \E bits \in {GetBitsFromPromises(promises)} :
          \E qubits \in Enumerations({b \in bits : IsQubit(b)}) :
          \E bit_promises \in Enumerations({b \in bits : IsBitPromise(b)}) :
             BeginConstruct(promises, qubits, bit_promises)
    \/ MergeStep

SpecMerge == Init /\ [][NextMerge]_vars

\* Every instruction is in the log of every operand it touches.
LogsComplete ==
    \A op \in DOMAIN insts : \A b \in Range(Touched(op)) :
       \E k \in DOMAIN operations[b] : operations[b][k] = op

\* A trace in which the caller deletes one entry of one operations list,
\* then _construct_circuit calls followed one statement at a time.  A call
\* that has started goes on: it runs in one thread with nothing to wait for.
NextStall ==
    \/ \E r \in Qubits, src \in {"default", "literal"},
          lit \in SeqsUpTo(Qubits, 1) :
          /\ pc = "tracing" /\ Len(insts) < MaxCompileInsts
          /\ Literal(src, lit)
          /\ AddGate("main", r, src, lit)
    \/ \E r \in Qubits :
          /\ pc = "tracing" /\ Len(insts) < MaxCompileInsts
          /\ Cardinality(Promises) < MaxPromises
          /\ Measure("main", r, "default", <<>>)
    \/ \E b \in Bits, k \in 1..MaxCompileInsts :
          /\ pc = "tracing" /\ LogsComplete
          /\ DeleteEntry("main", b, k)
    \/ /\ pc = "tracing"
       /\ \E promises \in SUBSET Promises :
          \E bits \in {GetBitsFromPromises(promises)} :
          \E qubits \in Enumerations({b \in bits : IsQubit(b)}) :
          \E bit_promises \in Enumerations({b \in bits : IsBitPromise(b)}) :
             BeginConstruct(promises, qubits, bit_promises)
    \/ MergeStep

SpecStall == Init /\ [][NextStall]_vars
LiveStall == Init /\ [][NextStall]_vars /\ WF_vars(MergeStep)

\* Tracing with a context manager kept in a variable and entered again.
NextScope ==
    \/ \E r \in Qubits, src \in {"default", "literal"},
          lit \in SeqsUpTo(Bits \cup {True, False}, 1) :
          /\ Len(insts) < MaxInsts
          /\ Literal(src, lit)
          /\ AddGate("main", r, src, lit)
    \/ \E r \in Qubits :
          /\ Len(insts) < MaxInsts /\ Cardinality(Promises) < MaxPromises
          /\ Measure("main", r, "default", <<>>)
    \/ \E b \in Bits : AsControl("main", b)
    \/ \E b \in Bits : EnterNew("main", b)
    \/ EnterHeld("main")
    \/ ExitWith("main")
    \/ Catch("main")

SpecScope == Init /\ [][NextScope]_vars

\* Two independent traces, one per execution context, interleaved.  Each
\* trace works on its own operands: the Qubits it created and the promises
\* measured from them.
Owner(bit) ==
    LET qubit == IF IsQubit(bit) THEN bit
                 ELSE insts[operations[bit][1]].qubits[1]
    IN  IF qubit.id % 2 = 1 THEN "main" ELSE "other"
Own(c) == {b \in Bits : Owner(b) = c}

NextConcurrent ==
    \/ \E c \in Contexts : \E r \in Own(c) \cap Qubits :
       \E src \in {"default", "literal"}, lit \in SeqsUpTo(Own(c), 1) :
          /\ Len(insts) < MaxCompileInsts
          /\ Literal(src, lit)
          /\ AddGate(c, r, src, lit)
    \/ \E c \in Contexts : \E r \in Own(c) \cap Qubits :
          /\ Len(insts) < MaxCompileInsts
          /\ Cardinality(Promises) < MaxPromises
          /\ Measure(c, r, "default", <<>>)
    \/ \E c \in Contexts : \E b \in Own(c) : EnterNew(c, b)
    \/ \E c \in Contexts : ExitWith(c)
    \/ \E c \in Contexts : Catch(c)

SpecConcurrent == Init /\ [][NextConcurrent]_vars

\* A function that puts new Qubits in superposition (h), flips Qubits on the
\* condition of a promise (x), measures and inverts, compiled once and run:
\* the traces whose circuits are executed.
NextRun ==
    \/ \E r \in Qubits :
          /\ pc = "tracing" /\ Len(insts) < MaxRunInsts
          /\ operations[r] = <<>>
          /\ CreateMethod("h", "main", r, "default", <<>>)
    \/ \E r \in Qubits, p \in Promises :
          /\ pc = "tracing" /\ Len(insts) < MaxRunInsts
          /\ CreateMethod("x", "main", r, "literal", <<p>>)
    \/ \E r \in Qubits :
          /\ pc = "tracing" /\ Len(insts) < MaxRunInsts
          /\ Cardinality(Promises) < MaxRunPromises
          /\ Measure("main", r, "default", <<>>)
    \/ \E p \in Promises :
          /\ pc = "tracing" /\ Cardinality(Promises) < MaxRunPromises
          /\ Invert("main", p)
    \/ /\ pc = "tracing" /\ Closed
       /\ \E promises \in SUBSET Promises :
          \E bits \in {GetBitsFromPromises(promises)} :
          \E qubits \in Enumerations({b \in bits : IsQubit(b)}) :
          \E bit_promises \in Enumerations({b \in bits : IsBitPromise(b)}) :
             Compile([promises |-> promises, qubit |-> FALSE,
                      searchable |-> TRUE],
                     SelectSeq(bit_promises, LAMBDA b : b \in promises),
                     qubits, bit_promises)
    \/ /\ pc = "returned"
       /\ \E integer \in Outcomes(function.circuit) :
             Run([set |-> TRUE, integer |-> integer])

SpecRun == Init /\ [][NextRun]_vars

\* A quPythonFunction whose function records a trace; compile, run and
\* interpret_result called on it in any order.  The function can return any
\* object, and interpret_result can be given None or any outcome.
Results ==
    [set : BOOLEAN, integer : 0..2 ^ MaxPromises - 1] \ [set : {FALSE}, integer : 1..2 ^ MaxPromises - 1]

NextFunction ==
    \/ \E r \in Qubits :
          /\ pc = "tracing" /\ Len(insts) < MaxCompileInsts
          /\ \/ AddGate("main", r, "default", <<>>)
             \/ AddGate("main", r, "literal", <<r>>)    \* q.x(conditions=[q])
    \/ \E r \in Qubits :
          /\ pc = "tracing" /\ Len(insts) < MaxCompileInsts
          /\ Cardinality(Promises) < MaxPromises
          /\ Measure("main", r, "default", <<>>)
    \/ \E p \in Promises :
          /\ pc = "tracing" /\ Cardinality(Promises) < MaxPromises
          /\ Invert("main", p)
    \/ /\ Closed /\ function.passes < MaxPasses
       /\ \E obj \in Outputs :
          \E bits \in {GetBitsFromPromises(obj.promises)} :
          \E qubits \in Enumerations({b \in bits : IsQubit(b)}) :
          \E bit_promises \in Enumerations({b \in bits : IsBitPromise(b)}) :
             Compile(obj, SelectSeq(bit_promises, LAMBDA b : b \in obj.promises),
                     qubits, bit_promises)
    \/ \E integer \in IF function.circuit.set
                       THEN Outcomes(function.circuit) ELSE {0} :
          Run([set |-> TRUE, integer |-> integer])
    \/ \E result \in Results : InterpretResult(result)

SpecFunction == Init /\ [][NextFunction]_vars

\* A trace whose caller keeps one conditions list in a variable and passes
\* it to gate and measure calls, inside and outside control scopes.
NextList ==
    \/ \E lit \in SeqsUpTo(Bits \cup {True, False}, 1) : NewList("main", lit)
    \/ \E r \in Qubits :
          /\ Len(insts) < MaxInsts
          /\ AddGate("main", r, "held", <<>>)
    \/ \E r \in Qubits :
          /\ Len(insts) < MaxInsts /\ Cardinality(Promises) < MaxPromises
          /\ Measure("main", r, "held", <<>>)
    \/ \E b \in Bits : EnterNew("main", b)
    \/ ExitWith("main")
    \/ Catch("main")

SpecList == Init /\ [][NextList]_vars

\* ------------------------------------------------------------- properties
\* The calls Next can make in context "main".
Calls ==
    {call \in [r : Qubits, src : {"default", "literal"}, lit : CondLists] :
        Literal(call.src, call.lit)}

\* The conditions of a call, as the caller sees them: the list it passes,
\* then the operands of the scopes the context variable holds.
Combined(lit) == lit \o active["main"]
HasFalse(conditions) ==
    \E i \in DOMAIN conditions : ~IsBit(conditions[i]) /\ ~Truthy(conditions[i])
HasBit(conditions) == \E i \in DOMAIN conditions : IsBit(conditions[i])
Count(x, s) == Cardinality({i \in DOMAIN s : s[i] = x})

\* C4 (build-time short-circuit): a gate call whose combined conditions hold a
\* false build-time value creates no Instruction and changes no operand's log,
\* whatever else the conditions hold.
C4_BuildTimeShortCircuit ==
    [][\A call \in Calls :
          (HasFalse(Combined(call.lit))
             /\ AddGate("main", call.r, call.src, call.lit))
          => (insts' = insts /\ operations' = operations /\ inverse' = inverse)]_vars

\* A gate call with a false build-time value among a Qubit and a promise has
\* returned without recording anything.
C4_Witness ==
    /\ last.op = "gate" /\ last.ret = "None"
    /\ last.kinds = {"Qubit", "BitPromise", "bool"}
    /\ insts /= <<>>

\* C5 (gate recording): a gate call on Qubit r whose build-time conditions are
\* all true creates one Instruction: qubits = the Qubit conditions (explicit
\* ones, then scope controls) followed by r, promises = the promise
\* conditions; the Instruction is appended to the log of every operand it
\* lists and to no other log.
C5_GateRecording ==
    [][\A call \in Calls :
          (~HasFalse(Combined(call.lit))
             /\ AddGate("main", call.r, call.src, call.lit))
          => LET qubits == SelectSeq(call.lit, IsQubit)
                             \o SelectSeq(active["main"], IsQubit)
                             \o <<call.r>>
                 promises == SelectSeq(call.lit, IsBitPromise)
                               \o SelectSeq(active["main"], IsBitPromise)
                 inst == Len(insts) + 1
             IN  /\ insts' = Append(insts, [kind |-> "gate", qubits |-> qubits,
                                            promises |-> promises,
                                            qiskit_instruction |-> "x"])
                 /\ DOMAIN operations' = DOMAIN operations
                 /\ \A b \in Bits :
                       IF b \in Range(qubits) \cup Range(promises)
                       THEN /\ Len(operations'[b]) > Len(operations[b])
                            /\ \A k \in DOMAIN operations'[b] :
                                  operations'[b][k] =
                                     IF k <= Len(operations[b])
                                     THEN operations[b][k] ELSE inst
                       ELSE operations'[b] = operations[b]]_vars

\* A gate was recorded with an explicit Qubit condition, a scope control and a
\* promise condition.
C5_Witness ==
    /\ last.op = "gate" /\ last.ret = "self"
    /\ active["main"] /= <<>>
    /\ Len(insts[last.inst].qubits) >= 3
    /\ insts[last.inst].promises /= <<>>
    /\ \E b \in Bits : ~(last.inst \in Range(operations[b]))

\* C9 (illegal measurement condition): measure with a Qubit or a promise among
\* its explicit conditions or the active controls raises
\* ConditionMeasurementAtRuntimeError, creates no Measurement and no Promise
\* and changes no operand's log.
C9_IllegalMeasurementCondition ==
    [][\A call \in Calls :
          (HasBit(Combined(call.lit))
             /\ Measure("main", call.r, call.src, call.lit))
          => /\ exc'["main"] = "ConditionMeasurementAtRuntimeError"
             /\ insts' = insts /\ operations' = operations
             /\ inverse' = inverse]_vars

\* measure raised inside a scope on a promise.
C9_Witness ==
    /\ last.op = "measure" /\ last.ret = "raise"
    /\ exc["main"] = "ConditionMeasurementAtRuntimeError"
    /\ \E k \in DOMAIN active["main"] : IsBitPromise(active["main"][k])

\* What a measure call on Qubit r that records a Measurement does.
MeasurementRecorded(r) ==
    LET promise == last'.new
        inst == Len(insts) + 1
    IN  /\ last'.ret = "promise"
        /\ IsBitPromise(promise) /\ ~(promise \in Bits)
        /\ DOMAIN operations' = Bits \cup {promise}
        /\ DOMAIN inverse' = Promises \cup {promise}
        /\ insts' = Append(insts, [kind |-> "measure", qubits |-> <<r>>,
                                   promises |-> <<promise>>,
                                   qiskit_instruction |-> "measure"])
        /\ operations'[r] = Append(operations[r], inst)
        /\ operations'[promise] = <<inst>>
        /\ \A b \in Bits \ {r} : operations'[b] = operations[b]

Closure == GetBitsFromPromises(requested)
Touches(op, bit) == bit \in Range(Touched(op))
ClosureInsts == {op \in DOMAIN insts : \E bit \in Closure : Touches(op, bit)}
Emitted(op) == {k \in DOMAIN circuit.data : circuit.data[k].inst = op}
FirstIndex(log, op) ==
    CHOOSE k \in DOMAIN log : log[k] = op /\ \A j \in 1..k - 1 : log[j] /= op

\* C1 (order preservation): in the circuit _construct_circuit returns, the
\* instructions touching an operand of the closure come in the order in which
\* they were appended to that operand's log.
C1_OrderPreservation ==
    pc = "returned" =>
       \A bit \in Closure : \A j, k \in DOMAIN circuit.data :
          LET first == circuit.data[j].inst
              second == circuit.data[k].inst
          IN  (j < k /\ first /= second
                 /\ Touches(first, bit) /\ Touches(second, bit))
              => FirstIndex(operations[bit], first)
                   < FirstIndex(operations[bit], second)

\* A circuit over two qubits with a measurement, a controlled gate guarded by
\* the promise, and a second measurement.
C1_Witness ==
    /\ pc = "returned"
    /\ circuit.num_qubits = 2
    /\ Len(circuit.data) >= 3
    /\ \E k \in DOMAIN circuit.data :
          /\ circuit.data[k].guards /= <<>>
          /\ Len(circuit.data[k].qargs) = 2

\* C2 as claimed (closure completeness): every recorded instruction touching
\* an operand of the closure is in the returned circuit exactly once, nothing
\* else is, and the circuit has as many instructions as the closure has
\* recorded instructions.
C2_ClosureCompleteness ==
    pc = "returned" =>
       /\ \A op \in ClosureInsts : Cardinality(Emitted(op)) = 1
       /\ \A k \in DOMAIN circuit.data : circuit.data[k].inst \in ClosureInsts
       /\ Len(circuit.data) = Cardinality(ClosureInsts)

\* C2 amended: every gate Instruction touching an operand of the closure is in
\* the returned circuit exactly once and every Measurement once per output
\* promise (the measured one and each inversion), each time into that
\* promise's classical bit; nothing else is in the circuit, which has as many
\* instructions as the closure has gates and promises.
C2_OncePerGateAndPromise ==
    pc = "returned" =>
       /\ \A op \in ClosureInsts :
             IF insts[op].kind = "gate"
             THEN Cardinality(Emitted(op)) = 1
             ELSE /\ Cardinality(Emitted(op)) = Len(insts[op].promises)
                  /\ \A j \in DOMAIN insts[op].promises :
                        \E k \in Emitted(op) :
                           circuit.data[k].cargs = <<index[insts[op].promises[j]]>>
       /\ \A k \in DOMAIN circuit.data : circuit.data[k].inst \in ClosureInsts
       /\ Len(circuit.data) =
             Cardinality({op \in ClosureInsts : insts[op].kind = "gate"})
               + Cardinality({bit \in Closure : IsBitPromise(bit)})

\* The closure holds a gate and a Measurement with an inverted promise, and a
\* gate was recorded on a Qubit outside it.
C2_Witness ==
    /\ pc = "returned"
    /\ \E op \in ClosureInsts : insts[op].kind = "gate"
    /\ \E op \in ClosureInsts : Len(insts[op].promises) = 2 /\ insts[op].kind = "measure"
    /\ \E op \in DOMAIN insts : ~(op \in ClosureInsts)

\* C3 (determinism): constructing the circuit of the same trace for the same
\* promises again gives the same circuit and the same indices.
C3_Determinism ==
    [][(pc = "returned" /\ pc' = "returned" /\ requested' = requested)
         => (circuit' = circuit /\ index' = index)]_vars

\* ------------------------------------------------- properties of the scopes
\* The operands of the with-statements context c is inside, outermost first.
OpenControls(c) == [k \in DOMAIN withs[c] |-> withs[c][k].control]
\* The operands an instruction is conditioned on.
ConditionedOn(inst) ==
    {inst.qubits[k] : k \in 1..Len(inst.qubits) - 1} \cup Range(inst.promises)

\* C6 (scoped control): a gate recorded while scopes on c1..ck are open is
\* conditioned on c1..ck and on its explicit conditions, and on nothing else:
\* not on the operand of a scope that has been exited.
C6_ScopedControl ==
    [][\A r \in Qubits, src \in {"default", "literal"},
          lit \in SeqsUpTo(Bits \cup {True, False}, 1) :
          (Literal(src, lit) /\ AddGate("main", r, src, lit) /\ insts' /= insts)
          => ConditionedOn(insts'[Len(insts')])
               = {b \in Range(lit) \cup Range(OpenControls("main")) : IsBit(b)}]_vars

\* C7 (guaranteed release): leaving a with-statement restores the active
\* controls to their value just before it was entered, and with no
\* with-statement left the active controls are empty.
C7_GuaranteedRelease ==
    [][\A c \in Contexts :
          Len(withs'[c]) < Len(withs[c])
          => /\ active'[c] = withs[c][Len(withs[c])].before
             /\ (withs'[c] = <<>> => active'[c] = <<>>)]_vars

\* C8 (scope isolation): every recorded instruction touches operands of one
\* trace only, so no gate of one trace is conditioned on an operand that a
\* scope of the other trace pushed.
C8_ScopeIsolation ==
    \A op \in DOMAIN insts : \A k \in DOMAIN Touched(op) :
       Owner(Touched(op)[k]) = Owner(insts[op].qubits[Len(insts[op].qubits)])

\* A gate was recorded in one context inside a scope of its own while the
\* other context was inside a scope, too.
C8_Witness ==
    /\ last.op = "gate" /\ last.ret = "self" /\ last.ctx = "other"
    /\ active["main"] /= <<>> /\ active["other"] /= <<>>
    /\ Len(insts[last.inst].qubits) = 2

\* ------------------------------------------------ properties of inversion
\* The Measurement that created promise p or the promise p was inverted from:
\* the one that lists p among its outputs.
Source(p) ==
    CHOOSE op \in DOMAIN insts :
       insts[op].kind = "measure" /\ p \in Range(insts[op].promises)

\* C11 (inversion): ~p returns a new promise with the source Measurement of p
\* and the flag of p flipped, appends it to the outputs of that Measurement,
\* and changes nothing else: no log of an existing operand, no other
\* instruction, no flag; no instruction is created.
C11_Inversion ==
    [][\A p \in Promises :
          Invert("main", p)
          => LET new == last'.new
             IN  /\ last'.ret = "promise"
                 /\ IsBitPromise(new) /\ ~(new \in Bits)
                 /\ DOMAIN operations' = Bits \cup {new}
                 /\ DOMAIN inverse' = Promises \cup {new}
                 /\ operations'[new] = <<Source(p)>>
                 /\ inverse'[new] = ~inverse[p]
                 /\ \A b \in Bits : operations'[b] = operations[b]
                 /\ \A q \in Promises : inverse'[q] = inverse[q]
                 /\ Len(insts') = Len(insts)
                 /\ \A op \in DOMAIN insts :
                       insts'[op] =
                          IF op = Source(p)
                          THEN [insts[op] EXCEPT !.promises = Append(@, new)]
                          ELSE insts[op]]_vars

\* The inversion of a promise has been inverted after a gate was conditioned
\* on it.
C11_Witness ==
    /\ last.op = "invert" /\ ~inverse[last.new]
    /\ Len(insts[last.inst].promises) = 3
    /\ \E p \in Range(insts[last.inst].promises) :
          inverse[p] /\ Len(operations[p]) > 1

\* C12 (inversion correctness): of two promises of one Measurement resolved
\* from one outcome of the compiled circuit, the truth values differ exactly
\* when the inversion flags differ: ~p is not p, and ~(~p) is p.
C12_InversionCorrectness ==
    \A p, q \in DOMAIN value :
       Source(p) = Source(q)
       => ((Bool(p) = Bool(q)) <=> (inverse[p] = inverse[q]))

\* p, ~p and ~(~p) of a Qubit in superposition were resolved by a run, p to
\* True.
C12_Witness ==
    /\ last.op = "run" /\ last.ret = "output"
    /\ Cardinality(DOMAIN value) = 3
    /\ \A p, q \in DOMAIN value : Source(p) = Source(q)
    /\ Bool(BitPromise(1)) = True /\ Bool(BitPromise(2)) = False
    /\ Bool(BitPromise(3)) = True

\* ------------------------------------------- properties of classical guards
\* The Qubit a promise was measured from.
SourceQubit(p) == insts[Source(p)].qubits[1]

\* A measured into m, a flip of B on the condition c (m or an inversion of
\* it), B measured into r: the whole trace.
Scenario(A, B, m, c, r) ==
    /\ A /= B /\ Len(insts) = 4
    /\ insts[1] = [kind |-> "gate", qubits |-> <<A>>, promises |-> <<>>,
                   qiskit_instruction |-> "h"]
    /\ insts[2].kind = "measure" /\ insts[2].qubits = <<A>>
    /\ insts[2].promises[1] = m /\ c \in Range(insts[2].promises)
    /\ insts[3] = [kind |-> "gate", qubits |-> <<B>>, promises |-> <<c>>,
                   qiskit_instruction |-> "x"]
    /\ insts[4] = [kind |-> "measure", qubits |-> <<B>>, promises |-> <<r>>,
                   qiskit_instruction |-> "measure"]

\* C14 (classical guard polarity): in a compiled circuit every gate
\* conditioned on a promise p is guarded by (classical bit of p) = 1 when p is
\* not inverted and = 0 when it is, and an earlier entry measures the source
\* Qubit of p into that bit; so in the scenario every outcome has r = m when
\* the condition is not inverted and r = not m when it is, and m = 0 and
\* m = 1 both occur.
C14_GuardPolarity ==
    pc = "returned" =>
      /\ \A k \in DOMAIN circuit.data :
            LET entry == circuit.data[k]
                promises == insts[entry.inst].promises
            IN  entry.name /= "measure" =>
                  /\ Len(entry.guards) = Len(promises)
                  /\ \A j \in DOMAIN promises :
                        /\ entry.guards[j] =
                              <<index[promises[j]],
                                IF inverse[promises[j]] THEN 0 ELSE 1>>
                        /\ \E i \in 1..k - 1 :
                              /\ circuit.data[i].name = "measure"
                              /\ circuit.data[i].cargs = <<index[promises[j]]>>
                              /\ circuit.data[i].qargs =
                                    <<index[SourceQubit(promises[j])]>>
      /\ \A A, B \in Qubits, m, c, r \in Promises :
            (Scenario(A, B, m, c, r) /\ r \in requested)
            => /\ \A o \in Outcomes(circuit) :
                     BitSet(o, index[r]) = (BitSet(o, index[m]) /= inverse[c])
               /\ \E o \in Outcomes(circuit) : BitSet(o, index[m])
               /\ \E o \in Outcomes(circuit) : ~BitSet(o, index[m])

\* The scenario with the flip conditioned on the inversion of m has been
\* compiled and run with A measured 0, so that B was flipped.
C14_Witness ==
    /\ pc = "returned" /\ last.op = "run"
    /\ \E A, B \in Qubits, m, c, r \in Promises :
          /\ Scenario(A, B, m, c, r) /\ inverse[c]
          /\ {m, r} \subseteq DOMAIN value
          /\ Bool(m) = False /\ Bool(r) = True

EmptyOutput == [promises |-> {}, qubit |-> FALSE, searchable |-> TRUE]

\* The last compile stored an output without a promise and raised nothing.
CompiledEmpty ==
    /\ function.output.set /\ function.output.promises = {}
    /\ function.output.pass = function.passes
    /\ function.promises.set /\ function.promises.pass = function.passes

\* C15 (empty output): a compile whose function returns an object without a
\* promise produces a circuit with no qubit, no classical bit and no
\* instruction, whatever the trace recorded; a run after it returns the output
\* of that compile, gives nothing to the backend and assigns no promise value.
C15_EmptyOutput ==
    /\ [][Compile(EmptyOutput, <<>>, <<>>, <<>>)
            => /\ function'.promises.list = <<>>
               /\ function'.circuit.set
               /\ function'.circuit.pass = function'.passes
               /\ function'.circuit.num_qubits = 0
               /\ function'.circuit.num_clbits = 0
               /\ function'.circuit.data = <<>>
               /\ CompiledEmpty']_vars
    /\ [][\A result \in Results :
            (CompiledEmpty /\ result.set /\ Run(result))
            => /\ last'.ret = "output"
               /\ last'.inst = function.passes
               /\ function' = function
               /\ value' = value]_vars

\* The trace recorded a gate and a Measurement, the function returned no
\* promise, and run has returned the output of that compile.
C15_Witness ==
    /\ CompiledEmpty
    /\ last.op = "run" /\ last.ret = "output" /\ last.inst = function.passes
    /\ \E op \in DOMAIN insts : insts[op].kind = "gate"
    /\ \E op \in DOMAIN insts : insts[op].kind = "measure"
    /\ function.circuit.data = <<>>
    /\ value = <<>>

\* C16 (NotCompiled): in every sequence of compile and run calls, a run made
\* while no compile pass has produced a circuit raises quPythonFunctionError,
\* also when the compile attempts so far failed part-way.
C16_NotCompiled ==
    [][\A result \in Results :
          (~function.circuit.set /\ Run(result))
          => last'.ret = "quPythonFunctionError"]_vars

\* C17 (no partial success): after any sequence of compile calls, some of
\* which fail, a run that returns an output resolves the promise list of the
\* pass that produced that output, on the circuit of that same pass.
C17_NoPartialSuccess ==
    [][\A result \in Results :
          (Run(result) /\ last'.ret = "output")
          => /\ function.promises.pass = function.output.pass
             /\ function.promises.list /= <<>>
                  => function.circuit.pass = function.output.pass]_vars

\* C18 (chaining): every gate call on a Qubit that raises nothing returns that
\* same Qubit, for every combination of the conditions passed to it and of
\* the open scopes, false build-time conditions included.
C18_Chaining ==
    [][\A call \in Calls :
          AddGate("main", call.r, call.src, call.lit) => last'.ret = "self"]_vars

\* The outcome disagrees with a value a promise of the stored list already has.
Conflicts(result) ==
    \E p \in Range(function.promises.list) \cap DOMAIN value :
       value[p] /= BitSet(result.integer, index[p])

\* C19 (single resolution): an interpret_result call whose outcome conflicts
\* with the values the promises already have fails with an error and leaves
\* every assigned value as it was.
C19_SingleResolution ==
    [][\A result \in Results :
          (result.set /\ function.promises.set /\ Conflicts(result)
             /\ InterpretResult(result))
          => /\ last'.ret /= "output"
             /\ value' = value]_vars

\* C20 (confined side effects): a gate call or a measure call given the list
\* the caller keeps leaves that list and the active control stack as they
\* were, so the next call given the same list gets the same conditions.
C20_ConfinedSideEffects ==
    [][\A r \in Qubits :
          (AddGate("main", r, "held", <<>>) \/ Measure("main", r, "held", <<>>))
          => (conds' = conds /\ active' = active)]_vars

\* ------------------------------------------ properties of the construction
\* The entries of the circuit that write classical bit c.
WrittenBy(c) ==
    {k \in DOMAIN circuit.data :
        circuit.data[k].name = "measure" /\ circuit.data[k].cargs = <<c>>}

\* The trace is one measurement of one fresh Qubit, and its promise is asked for.
SingleMeasurement ==
    /\ Len(insts) = 1 /\ insts[1].kind = "measure"
    /\ Cardinality(Promises) = 1 /\ requested = Promises

\* After a construction that returned: the Qubits of the closure have the
\* indices 0..n-1, one each, the promises of the closure 0..m-1, one each, the
\* circuit has n quantum and m classical bits, and the classical bit of each
\* promise is written, and only written, by the Measurement of the promise,
\* from the index of the Qubit it measures.
IndexAssignment ==
    pc = "returned" =>
       LET qubits == {b \in Closure : IsQubit(b)}
           promises == {b \in Closure : IsBitPromise(b)}
       IN  /\ Closure \subseteq DOMAIN index
           /\ {index[q] : q \in qubits} = 0..Cardinality(qubits) - 1
           /\ {index[p] : p \in promises} = 0..Cardinality(promises) - 1
           /\ circuit.num_qubits = Cardinality(qubits)
           /\ circuit.num_clbits = Cardinality(promises)
           /\ \A p \in promises :
                 /\ WrittenBy(index[p]) /= {}
                 /\ \A k \in WrittenBy(index[p]) :
                       /\ circuit.data[k].inst = Source(p)
                       /\ circuit.data[k].qargs = <<index[SourceQubit(p)]>>
           /\ SingleMeasurement
                 => circuit = [num_qubits |-> 1, num_clbits |-> 1,
                               data |-> <<[inst |-> 1, name |-> "measure",
                                           qargs |-> <<0>>, cargs |-> <<0>>,
                                           guards |-> <<>>]>>]

\* C21 (index assignment and round trip): a construction that returns has
\* numbered the Qubits of the closure 0..n-1 and its promises 0..m-1 without
\* repeats, inversions nobody asked for included, and built a circuit of n
\* quantum and m classical bits in which the bit of each promise is written
\* only by the measurement of its own source Qubit; a run then gives each
\* promise of the list the bit of the outcome at that same index.  One fresh
\* Qubit measured once gives 1 quantum bit, 1 classical bit, one measurement
\* and no gate.
C21_IndexRoundTrip ==
    /\ []IndexAssignment
    /\ [][(last'.op = "run" /\ last'.ret = "output")
            => \A p \in Range(function.promises.list) :
                  /\ Run(function'.sampler_result)
                  /\ value'[p] = BitSet(function'.sampler_result.integer,
                                        index[p])]_vars

\* A run has resolved two promises of two Qubits in a closure that also holds
\* an inversion nobody asked for.
C21_Witness ==
    /\ pc = "returned" /\ last.op = "run" /\ last.ret = "output"
    /\ Cardinality({b \in Closure : IsQubit(b)}) = 2
    /\ Cardinality({b \in Closure : IsBitPromise(b)}) = 3
    /\ \E p \in Closure : IsBitPromise(p) /\ inverse[p] /\ ~(p \in requested)
    /\ Cardinality(DOMAIN value) = 2

\* ------------------------------------------------- properties of the merge
\* The cursor of operand b points at instruction op.
PointsAt(b, op) ==
    /\ op_pointer[b] < Len(operations[b])
    /\ operations[b][op_pointer[b] + 1] = op

\* C22 (readiness): the merge puts an instruction into the circuit only when
\* the cursor of every operand it touches points at it, and doing so moves
\* the cursor of each touched operand forward by exactly one and no other
\* cursor.
C22_Readiness ==
    [][\A op \in DOMAIN insts :
          (Emit(op) /\ pc' = "merging")
          => /\ \A b \in Range(Touched(op)) : PointsAt(b, op)
             /\ \A b \in DOMAIN op_pointer :
                   op_pointer'[b] = IF Touches(op, b) THEN op_pointer[b] + 1
                                    ELSE op_pointer[b]]_vars

\* Every cursor of the closure is at the end of its log.
CursorsAtEnd ==
    \A b \in Closure : op_pointer[b] = Len(operations[b])

\* C23 (scheduler termination): for every recorded trace, also one with a
\* call whose conditions name an operand twice or the receiver itself, a
\* construction never ends with an exception, no cursor of the closure is
\* ever beyond the end of its log, and the construction returns with every
\* cursor of the closure at the end of its log.
C23_SchedulerTermination ==
    /\ pc \in {"tracing", "merging", "returned"}
    /\ pc \in {"merging", "returned"}
          => \A b \in Closure : op_pointer[b] <= Len(operations[b])
    /\ pc = "returned" => CursorsAtEnd

\* C24 (stall detection): a construction that has started always ends, by
\* returning the circuit or by raising an error, also when an instruction is
\* missing from an operand's log and a pass over the Qubits emits nothing.
C24_StallDetection ==
    (pc = "merging") ~> (pc /= "merging")

\* ------------------------------------------------ properties of the closure
\* S holds every operand touched by an instruction in the log of a member.
ClosedUnderLogs(S) ==
    \A b \in S : \A k \in DOMAIN operations[b] :
       Range(Touched(operations[b][k])) \subseteq S

\* The least set of operands that holds P and is closed under the logs.
LeastClosed(P) ==
    {b \in Bits : \A S \in SUBSET Bits :
                     (P \subseteq S /\ ClosedUnderLogs(S)) => b \in S}

\* C25 (linkage closure): for every set of requested promises,
\* _get_bits_from_promises returns the least set of operands that holds them
\* and is closed under "touched by an instruction in the log of a member";
\* an operand no chain of instructions links to a requested promise is not
\* in it.
C25_LinkageClosure ==
    \A P \in SUBSET Promises : GetBitsFromPromises(P) = LeastClosed(P)

\* The closure of the one requested promise holds its Qubit, whose log has a
\* gate, and an inversion nobody asked for, and leaves out a Qubit that has a
\* gate in its log but no instruction in common with the closure.
C25_Witness ==
    /\ pc = "returned"
    /\ Cardinality(requested) = 1
    /\ \E p \in Closure \ requested : IsBitPromise(p) /\ inverse[p]
    /\ \E q \in Closure : IsQubit(q) /\ Len(operations[q]) = 2
    /\ \E q \in Qubits \ Closure : operations[q] /= <<>>

\* ---------------------------------------------------- properties of the logs
\* C26 (single appearance): every instruction is exactly once in the log of
\* each operand it touches, also when the combined conditions of a gate name
\* an operand more than once or name the receiver.
C26_SingleAppearance ==
    \A op \in DOMAIN insts : \A b \in Range(Touched(op)) :
       Count(op, operations[b]) = 1

\* The Measurements that list promise p among their outputs.
Measurements(p) ==
    {op \in DOMAIN insts :
        insts[op].kind = "measure" /\ p \in Range(insts[op].promises)}

\* C27 (promise/Measurement linkage): the log of every promise starts with a
\* Measurement and holds no other one, every later entry being a gate
\* conditioned on the promise; that Measurement is the only one that lists
\* the promise among its outputs, measures one Qubit, and is exactly once in
\* the log of that Qubit.
C27_PromiseLinkage ==
    \A p \in Promises :
       /\ operations[p] /= <<>>
       /\ Measurements(p) = {operations[p][1]}
       /\ \A k \in 2..Len(operations[p]) :
             /\ insts[operations[p][k]].kind = "gate"
             /\ p \in Range(insts[operations[p][k]].promises)
       /\ Len(insts[operations[p][1]].qubits) = 1
       /\ Count(operations[p][1], operations[insts[operations[p][1]].qubits[1]]) = 1

\* A promise and an inversion of it share their Measurement, and a gate
\* conditioned on the inversion is the second entry of its log.
C27_Witness ==
    \E p, n \in Promises :
       /\ p /= n /\ inverse[n] /\ ~inverse[p]
       /\ operations[p][1] = operations[n][1]
       /\ Len(operations[n]) = 2
       /\ insts[operations[n][2]].kind = "gate"

\* C28 (compilation leaves the trace intact): _construct_circuit starts the
\* merge with the cursor of every operand of the closure at 0, whatever an
\* earlier construction left on it; while the merge runs no log and no
\* recorded instruction changes and no cursor goes back.
C28_TraceIntact ==
    /\ [][\A promises \in SUBSET Promises :
            (last'.op = "begin" /\ requested' = promises)
            => \A b \in GetBitsFromPromises(promises) :
                  /\ b \in DOMAIN op_pointer'
                  /\ op_pointer'[b] = 0]_vars
    /\ [][pc = "merging"
            => /\ operations' = operations
               /\ insts' = insts
               /\ \A b \in DOMAIN op_pointer :
                     /\ b \in DOMAIN op_pointer'
                     /\ op_pointer'[b] >= op_pointer[b]]_vars

\* A second construction is under way on operands an earlier one left with
\* their cursors at the end of their logs: it has emitted an instruction, a
\* cursor of its closure is still short of the end, and an operand outside
\* its closure still has the cursor the earlier construction gave it.
C28_Witness ==
    /\ pc = "merging" /\ last.op = "emit"
    /\ \E b \in Closure : op_pointer[b] < Len(operations[b])
    /\ \E b \in Closure : op_pointer[b] > 0
    /\ \E b \in DOMAIN op_pointer \ Closure : op_pointer[b] > 0

====
